---- MODULE Spec2Model ----
(***************************************************************************)
(* Model of the BollinGrid market-making controller                        *)
(* (hummingbot_files/templates/master_bot_conf/controllers/bollingrid.py)  *)
(* and of the backtesting dashboard page (pages/9_Backtesting.py).         *)
(*                                                                         *)
(* The specifications share the variables:                               *)
(*   Spec       the executor callbacks (refresh / early stop / cooldown)   *)
(*              evaluated against a clock and an executor's life cycle;    *)
(*   LiveSpec   Spec with an advancing clock (weak fairness of Tick);      *)
(*   SignalSpec get_processed_data and get_position_config applied to      *)
(*              candles and order levels drawn from bounded sets;          *)
(*   PageSpec   the top-to-bottom run of the backtesting page script.      *)
(***************************************************************************)
EXTENDS Integers, Naturals, Sequences, FiniteSets, TLC

VARIABLES now, executor, config, order_level, candle, call, pc, df_to_show, strategy, backtesting, positions, backtesting_analysis, rendered, trace, runs

vars == <<now, executor, config, order_level, candle, call, pc, df_to_show, strategy, backtesting, positions, backtesting_analysis, rendered, trace, runs>>

pageVars == <<pc, df_to_show, strategy, backtesting, positions, backtesting_analysis, rendered, trace, runs>>

(***************************************************************************)
(* Bounds of the model.                                                    *)
(***************************************************************************)
\* largest clock value (seconds since the start of the run)
MaxTime == 5

\* largest order_refresh_time of an order level
MaxRefreshTime == 2

\* largest cooldown_time of an order level
MaxCooldownTime == 2

\* largest spread_factor of an order level
MaxSpreadFactor == 3

\* largest order_amount_usd of an order level
MaxOrderAmountUsd == 1

\* largest configured take_profit, in hundredths
MaxTakeProfit == 1

\* largest close price
MaxClosePrice == 2

\* NATR takes the values 0, 0.5, ..., 0.5 * MaxNatrStep
MaxNatrStep == 1

\* %B takes the values 0.1, 0.3, ..., 0.1 + 0.2 * MaxBbpStep (and NaN)
MaxBbpStep == 4

\* significant digits kept by a Decimal division (the decimal context's prec)
DecimalPrec == 4

\* how many times the page script is run
MaxRuns == 2

\* how many different candle dataframes get_dataframe can return
MaxDataframes == 2

\* how many different position lists run_backtesting can return
MaxPositionLists == 2

(***************************************************************************)
(* Python values.                                                          *)
(***************************************************************************)
\* executor.close_timestamp before the executor has finished
None == -1

\* truth value of an optional number: None and 0 are falsy
Truthy(x) == x # None /\ x # 0

(***************************************************************************)
(* decimal.Decimal: the value c * 10^(-e), kept normalised (no trailing    *)
(* zero in c while e > 0) so that equal values are equal records.  Every   *)
(* arithmetic result is rounded half-even to DecimalPrec significant       *)
(* digits, as the decimal context does.                                    *)
(***************************************************************************)
RECURSIVE Pow10(_)
Pow10(k) == IF k <= 0 THEN 1 ELSE 10 * Pow10(k - 1)

Abs(x) == IF x < 0 THEN -x ELSE x

Sign(x) == IF x < 0 THEN -1 ELSE 1

RECURSIVE DecNorm(_, _)
DecNorm(c, e) ==
    IF c = 0 THEN [c |-> 0, e |-> 0]
    ELSE IF e > 0 /\ c % 10 = 0 THEN DecNorm(c \div 10, e - 1)
    ELSE [c |-> c, e |-> e]

Dec(c, e) == DecNorm(c, e)

DecInt(n) == Dec(n, 0)

RoundHalfEven(n, d) ==
    LET q == n \div d
        r == n % d
    IN  IF 2 * r > d \/ (2 * r = d /\ q % 2 = 1) THEN q + 1 ELSE q

\* how many digits of n >= 0 lie beyond the DecimalPrec most significant
RECURSIVE ExcessDigits(_, _)
ExcessDigits(n, j) ==
    IF n < Pow10(DecimalPrec + j) THEN j ELSE ExcessDigits(n, j + 1)

\* c * 10^(-e) rounded to the context precision
DecRound(c, e) ==
    LET j == ExcessDigits(Abs(c), 0)
        q == Sign(c) * RoundHalfEven(Abs(c), Pow10(j))
    IN  IF j = 0 THEN DecNorm(c, e)
        ELSE IF e >= j THEN DecNorm(q, e - j)
        ELSE DecNorm(q * Pow10(j - e), 0)

\* unary minus applies the context: the result is rounded like any other
DecNeg(a) == DecRound(-a.c, a.e)

DecAdd(a, b) ==
    LET e == IF a.e > b.e THEN a.e ELSE b.e
    IN  DecRound(a.c * Pow10(e - a.e) + b.c * Pow10(e - b.e), e)

DecMul(a, b) == DecRound(a.c * b.c, a.e + b.e)

DecCmp(a, b) ==
    LET e == IF a.e > b.e THEN a.e ELSE b.e
    IN  a.c * Pow10(e - a.e) - b.c * Pow10(e - b.e)

DecLt(a, b) == DecCmp(a, b) < 0

DecLe(a, b) == DecCmp(a, b) <= 0

DecIsZero(a) == a.c = 0

\* the least k >= 0 with n * 10^k >= d * 10^(DecimalPrec - 1)
RECURSIVE ScaleUp(_, _, _)
ScaleUp(n, d, k) ==
    IF n >= d * Pow10(DecimalPrec - 1) THEN k ELSE ScaleUp(n * 10, d, k + 1)

\* the least j >= 0 with n < d * 10^j * 10^DecimalPrec
RECURSIVE ScaleDown(_, _, _)
ScaleDown(n, d, j) ==
    IF n < d * Pow10(DecimalPrec) THEN j ELSE ScaleDown(n, d * 10, j + 1)

\* the exception a / 0 raises: 0 / 0 is undefined (InvalidOperation, not a
\* ZeroDivisionError), anything else / 0 is DivisionByZero
DecDivError(a) ==
    IF DecIsZero(a) THEN "decimal.InvalidOperation" ELSE "decimal.DivisionByZero"

\* a / b for b # 0
DecDiv(a, b) ==
    LET sign == IF (a.c < 0) = (b.c < 0) THEN 1 ELSE -1
        n == Abs(a.c) * Pow10(b.e)
        d == Abs(b.c) * Pow10(a.e)
        j == ScaleDown(n, d, 0)
        k == ScaleUp(n, d, 0)
    IN  IF n = 0 THEN DecInt(0)
        ELSE IF j > 0 THEN DecNorm(sign * RoundHalfEven(n, d * Pow10(j)) * Pow10(j), 0)
        ELSE DecNorm(sign * RoundHalfEven(n * Pow10(k), d), k)

(***************************************************************************)
(* Python floats of the candles dataframe, in tenths; NaN compares false.  *)
(***************************************************************************)
Float(v) == [nan |-> FALSE, v |-> v]

NaN == [nan |-> TRUE, v |-> 0]

FloatLt(a, b) == ~a.nan /\ ~b.nan /\ a.v < b.v

FloatGt(a, b) == ~a.nan /\ ~b.nan /\ a.v > b.v

(***************************************************************************)
(* Optional Decimal fields (None or a Decimal).                            *)
(***************************************************************************)
NoDec == [some |-> FALSE, v |-> DecInt(0)]

SomeDec(d) == [some |-> TRUE, v |-> d]

DecTruthy(o) == o.some /\ ~DecIsZero(o.v)

(***************************************************************************)
(* BollinGridConfig.  Thresholds are floats in tenths.                     *)
(***************************************************************************)
DefaultBbLength == 12

DefaultBbLongThreshold == 7

DefaultBbShortThreshold == 3

DefaultNatrLength == 14

BollinGridConfig(long, short) ==
    [strategy_name      |-> "bollinger_grid",
     bb_length          |-> DefaultBbLength,
     bb_long_threshold  |-> Float(long),
     bb_short_threshold |-> Float(short),
     natr_length        |-> DefaultNatrLength,
     exchange           |-> "binance_perpetual",
     trading_pair       |-> "ETH-USDT",
     leverage           |-> 20]

DefaultConfig == BollinGridConfig(DefaultBbLongThreshold, DefaultBbShortThreshold)

ThresholdValues == {DefaultBbShortThreshold, DefaultBbLongThreshold}

Configs == {BollinGridConfig(l, s) : l \in ThresholdValues, s \in ThresholdValues}

(***************************************************************************)
(* OrderLevel and its TripleBarrierConf.                                   *)
(***************************************************************************)
Sides == {"BUY", "SELL", "RANGE"}

TripleBarrierConf(tp, kind) ==
    IF kind = 1
    THEN [take_profit |-> tp,
          stop_loss |-> Dec(3, 2),
          time_limit |-> 86400,
          open_order_type |-> "LIMIT",
          take_profit_order_type |-> "MARKET",
          trailing_stop_activation_price_delta |-> NoDec,
          trailing_stop_trailing_delta |-> NoDec]
    ELSE [take_profit |-> tp,
          stop_loss |-> Dec(5, 2),
          time_limit |-> 3600,
          open_order_type |-> "MARKET",
          take_profit_order_type |-> "LIMIT",
          trailing_stop_activation_price_delta |-> SomeDec(Dec(1, 2)),
          trailing_stop_trailing_delta |-> SomeDec(Dec(5, 3))]

OrderLevel(side, usd, sf, refresh, cooldown, conf) ==
    [side               |-> side,
     order_amount_usd   |-> usd,
     spread_factor      |-> sf,
     order_refresh_time |-> refresh,
     cooldown_time      |-> cooldown,
     triple_barrier_conf |-> conf]

\* the levels the executor callbacks are evaluated with: every refresh and
\* cooldown time, the other fields fixed
TimingLevels ==
    {OrderLevel("BUY", DecInt(1), DecInt(1), r, c, TripleBarrierConf(Dec(1, 2), 1)) :
        r \in 0..MaxRefreshTime, c \in 0..MaxCooldownTime}

\* the levels get_position_config is evaluated with: every side, amount,
\* spread factor and barrier configuration, the timing fields fixed
SizingLevels ==
    {OrderLevel(side, DecInt(usd), DecInt(sf), 60, 0, TripleBarrierConf(Dec(tp, 2), kind)) :
        side \in Sides, usd \in 0..MaxOrderAmountUsd, sf \in 0..MaxSpreadFactor,
        tp \in 0..MaxTakeProfit, kind \in {1, 2}}

(***************************************************************************)
(* The last candle as the indicators see it: the close price, NATR / 100   *)
(* (ta.natr) and Bollinger %B (the BBP column of ta.bbands).               *)
(***************************************************************************)
ClosePrices == {DecInt(p) : p \in 1..MaxClosePrice}

NatrValues == {Dec(5 * k, 1) : k \in 0..MaxNatrStep}

BbpValues == {NaN} \cup {Float(1 + 2 * k) : k \in 0..MaxBbpStep}

Candles == [close : ClosePrices, natr : NatrValues, bbp : BbpValues]

\* a candle before the indicators have warmed up
FlatCandle == [close |-> DecInt(1), natr |-> DecInt(0), bbp |-> NaN]

(***************************************************************************)
(* The executor callbacks.  t is the value time.time() returns.            *)
(***************************************************************************)
\* mutant: the comparison admits equality, so the order is not refreshed at
\* the instant its refresh time elapses
refresh_order_condition_late(ex, lvl, t) ==
    IF ex.position_config.timestamp + lvl.order_refresh_time >= t
    THEN FALSE
    ELSE TRUE

refresh_order_condition(ex, lvl, t) ==
    IF ex.position_config.timestamp + lvl.order_refresh_time > t
    THEN FALSE
    ELSE TRUE

\* mutant: asks to stop an executor that has already finished
early_stop_condition_finished(ex, lvl) == Truthy(ex.close_timestamp)

early_stop_condition(ex, lvl) == FALSE

\* mutant: the comparison admits equality, so the cooldown lasts one clock
\* value too long
cooldown_condition_late(ex, lvl, t) ==
    IF Truthy(ex.close_timestamp) /\ ex.close_timestamp + lvl.cooldown_time >= t
    THEN TRUE
    ELSE FALSE

cooldown_condition(ex, lvl, t) ==
    IF Truthy(ex.close_timestamp) /\ ex.close_timestamp + lvl.cooldown_time > t
    THEN TRUE
    ELSE FALSE

(***************************************************************************)
(* get_processed_data, on the last row of the candles dataframe.           *)
(***************************************************************************)
\* mutant: the two assignments are applied in the other order
active_side_of_long_last(cfg, bbp) ==
    LET long_condition  == FloatLt(bbp, cfg.bb_long_threshold)
        short_condition == FloatGt(bbp, cfg.bb_short_threshold)
        side0 == 0
        side1 == IF short_condition THEN -1 ELSE side0
        side2 == IF long_condition THEN 1 ELSE side1
    IN  side2

\* the active_side column: 0, then 1 where long_condition, then -1 where
\* short_condition
active_side_of(cfg, bbp) ==
    LET long_condition  == FloatLt(bbp, cfg.bb_long_threshold)
        short_condition == FloatGt(bbp, cfg.bb_short_threshold)
        side0 == 0
        side1 == IF long_condition THEN 1 ELSE side0
        side2 == IF short_condition THEN -1 ELSE side1
    IN  side2

get_processed_data(cfg, cndl) ==
    [spread_multiplier |-> cndl.natr,
     price_multiplier  |-> cndl.bbp,
     active_side       |-> active_side_of(cfg, cndl.bbp)]

(***************************************************************************)
(* get_position_config.  The result is None, a PositionConfig, or the      *)
(* exception raised by the division when the order price is zero.          *)
(***************************************************************************)
ReturnNone == [kind |-> "None"]

Raise(exc) == [kind |-> "raised", exception |-> exc]

Return(position_config) == [kind |-> "PositionConfig", position_config |-> position_config]

current_side_of(lvl) == IF lvl.side = "BUY" THEN 1 ELSE -1

signed_spread_multiplier(lvl, spread_multiplier) ==
    IF lvl.side = "SELL" THEN spread_multiplier ELSE DecNeg(spread_multiplier)

order_price_of(close_price, lvl, spread_multiplier) ==
    DecMul(close_price, DecAdd(DecInt(1), DecMul(lvl.spread_factor, spread_multiplier)))

trailing_stop_of(conf) ==
    IF DecTruthy(conf.trailing_stop_trailing_delta) /\ DecTruthy(conf.trailing_stop_trailing_delta)
    THEN [some |-> TRUE,
          activation_price_delta |-> conf.trailing_stop_activation_price_delta,
          trailing_delta |-> conf.trailing_stop_trailing_delta]
    ELSE [some |-> FALSE, activation_price_delta |-> NoDec, trailing_delta |-> NoDec]

take_profit_of(conf, spread_multiplier) == DecMul(conf.take_profit, spread_multiplier)

get_position_config(cfg, lvl, cndl, t) ==
    LET close_price == cndl.close
        row == get_processed_data(cfg, cndl)
        active_side == row.active_side
        current_side == current_side_of(lvl)
        spread_multiplier == signed_spread_multiplier(lvl, row.spread_multiplier)
        order_price == order_price_of(close_price, lvl, spread_multiplier)
        conf == lvl.triple_barrier_conf
    IN  IF active_side = current_side
        THEN IF DecIsZero(order_price)
             THEN Raise(DecDivError(lvl.order_amount_usd))
             ELSE Return([timestamp    |-> t,
                          trading_pair |-> cfg.trading_pair,
                          exchange     |-> cfg.exchange,
                          side         |-> lvl.side,
                          amount       |-> DecDiv(lvl.order_amount_usd, order_price),
                          take_profit  |-> take_profit_of(conf, spread_multiplier),
                          stop_loss    |-> conf.stop_loss,
                          time_limit   |-> conf.time_limit,
                          entry_price  |-> order_price,
                          open_order_type |-> conf.open_order_type,
                          take_profit_order_type |-> conf.take_profit_order_type,
                          trailing_stop |-> trailing_stop_of(conf),
                          leverage     |-> cfg.leverage])
        ELSE ReturnNone

(***************************************************************************)
(* The clock and the executor's life cycle (the framework's side).         *)
(***************************************************************************)
NoCall == [op |-> "none"]

\* time.time() advances
Tick ==
    /\ now < MaxTime
    /\ now' = now + 1
    /\ UNCHANGED <<executor, config, order_level, candle, call, pageVars>>

\* the framework creates an executor from a PositionConfig stamped now;
\* its close_timestamp is unset (None, or 0)
ExecutorStart ==
    /\ \E unset \in {None, 0} :
          executor' = [position_config |-> [timestamp |-> now], close_timestamp |-> unset]
    /\ UNCHANGED <<now, config, order_level, candle, call, pageVars>>

\* the executor finishes: the framework stamps close_timestamp.  The clock
\* of the model stops at MaxTime, so an executor finishes only while its
\* longest cooldown can still elapse before then.
ExecutorClose ==
    /\ ~Truthy(executor.close_timestamp)
    /\ now + MaxCooldownTime <= MaxTime
    /\ executor' = [executor EXCEPT !.close_timestamp = now]
    /\ UNCHANGED <<now, config, order_level, candle, call, pageVars>>

(***************************************************************************)
(* The framework calls the controller.                                     *)
(***************************************************************************)
RefreshOrderCondition ==
    /\ call' = [op |-> "refresh_order_condition", at |-> now, executor |-> executor,
                result |-> refresh_order_condition(executor, order_level, now)]
    /\ UNCHANGED <<now, executor, config, order_level, candle, pageVars>>

EarlyStopCondition ==
    /\ call' = [op |-> "early_stop_condition", at |-> now, executor |-> executor,
                result |-> early_stop_condition(executor, order_level)]
    /\ UNCHANGED <<now, executor, config, order_level, candle, pageVars>>

CooldownCondition ==
    /\ call' = [op |-> "cooldown_condition", at |-> now, executor |-> executor,
                result |-> cooldown_condition(executor, order_level, now)]
    /\ UNCHANGED <<now, executor, config, order_level, candle, pageVars>>

GetProcessedData ==
    /\ call' = [op |-> "get_processed_data", at |-> now,
                result |-> get_processed_data(config, candle)]
    /\ UNCHANGED <<now, executor, config, order_level, candle, pageVars>>

GetPositionConfig ==
    /\ call' = [op |-> "get_position_config", at |-> now,
                result |-> get_position_config(config, order_level, candle, now)]
    /\ UNCHANGED <<now, executor, config, order_level, candle, pageVars>>

(***************************************************************************)
(* Initial states.                                                         *)
(***************************************************************************)
FirstExecutor == [position_config |-> [timestamp |-> 1], close_timestamp |-> None]

InitPage ==
    /\ pc = "set_page_config"
    /\ df_to_show = 0
    /\ strategy = 0
    /\ backtesting = 0
    /\ positions = 0
    /\ backtesting_analysis = 0
    /\ rendered = {}
    /\ trace = <<>>
    /\ runs = 1

\* the controller just constructed (BollinGrid.__init__) with one of its
\* order levels, and one executor created at the first clock value
Init ==
    /\ now = 1
    /\ executor = FirstExecutor
    /\ config = DefaultConfig
    /\ order_level \in TimingLevels
    /\ candle = FlatCandle
    /\ call = NoCall
    /\ InitPage

Next ==
    \/ Tick
    \/ ExecutorStart
    \/ ExecutorClose
    \/ RefreshOrderCondition
    \/ EarlyStopCondition
    \/ CooldownCondition

Spec == Init /\ [][Next]_vars

LiveSpec == Spec /\ WF_vars(Tick)

\* the controller with any configuration, order level and last candle
SignalInit ==
    /\ now \in {1, MaxTime}
    /\ executor = FirstExecutor
    /\ config \in Configs
    /\ order_level \in SizingLevels
    /\ candle \in Candles
    /\ call = NoCall
    /\ InitPage

SignalNext ==
    \/ GetProcessedData
    \/ GetPositionConfig

SignalSpec == SignalInit /\ [][SignalNext]_vars

(***************************************************************************)
(* The backtesting page: the script runs top to bottom, one statement at   *)
(* a time; a statement that raises ends the run.  pc names the statement   *)
(* about to run, trace the statements that have completed in this run.     *)
(***************************************************************************)
\* mutant: the report is rendered before the analysis is built
StepAfter_render_first(step) ==
    CASE step = "set_page_config"     -> "title"
      [] step = "title"               -> "get_dataframe"
      [] step = "get_dataframe"       -> "StatArb"
      [] step = "StatArb"             -> "Backtesting"
      [] step = "Backtesting"         -> "text"
      [] step = "text"                -> "text_exit"
      [] step = "text_exit"           -> "run_backtesting"
      [] step = "run_backtesting"     -> "BacktestingAnalysis"
      [] step = "BacktestingAnalysis" -> "create_base_figure"
      [] step = "create_base_figure"  -> "add_trade_pnl"
      [] step = "add_trade_pnl"       -> "columns"
      [] step = "columns"             -> "plotly_chart"
      [] step = "plotly_chart"        -> "plotly_chart_exit"
      [] step = "plotly_chart_exit"   -> "done"

\* what follows a statement of the script; a with block is left through its
\* context manager's __exit__ (text_exit, plotly_chart_exit) once its body
\* has run
StepAfter(step) ==
    CASE step = "set_page_config"     -> "title"
      [] step = "title"               -> "get_dataframe"
      [] step = "get_dataframe"       -> "StatArb"
      [] step = "StatArb"             -> "Backtesting"
      [] step = "Backtesting"         -> "run_backtesting"
      [] step = "run_backtesting"     -> "BacktestingAnalysis"
      [] step = "BacktestingAnalysis" -> "create_base_figure"
      [] step = "create_base_figure"  -> "add_trade_pnl"
      [] step = "add_trade_pnl"       -> "columns"
      [] step = "columns"             -> "text"
      [] step = "text"                -> "text_exit"
      [] step = "text_exit"           -> "plotly_chart"
      [] step = "plotly_chart"        -> "plotly_chart_exit"
      [] step = "plotly_chart_exit"   -> "done"

Dataframes == 1..MaxDataframes

PositionLists == 1..MaxPositionLists

Advance(step) ==
    /\ pc = step
    /\ pc' = StepAfter(step)
    /\ trace' = Append(trace, step)

SetPageConfig ==
    /\ Advance("set_page_config")
    /\ UNCHANGED <<df_to_show, strategy, backtesting, positions, backtesting_analysis, rendered, runs>>
    /\ UNCHANGED <<now, executor, config, order_level, candle, call>>

Title ==
    /\ Advance("title")
    /\ rendered' = rendered \cup {"title"}
    /\ UNCHANGED <<df_to_show, strategy, backtesting, positions, backtesting_analysis, runs>>
    /\ UNCHANGED <<now, executor, config, order_level, candle, call>>

GetDataframe ==
    /\ Advance("get_dataframe")
    /\ \E df \in Dataframes : df_to_show' = df
    /\ UNCHANGED <<strategy, backtesting, positions, backtesting_analysis, rendered, runs>>
    /\ UNCHANGED <<now, executor, config, order_level, candle, call>>

ConstructStatArb ==
    /\ Advance("StatArb")
    /\ strategy' = [trading_pair |-> "ETH-USDT", periods |-> 24, deviation_threshold |-> Dec(15, 1)]
    /\ UNCHANGED <<df_to_show, backtesting, positions, backtesting_analysis, rendered, runs>>
    /\ UNCHANGED <<now, executor, config, order_level, candle, call>>

ConstructBacktesting ==
    /\ Advance("Backtesting")
    /\ backtesting' = [strategy |-> strategy, runs |-> 0]
    /\ UNCHANGED <<df_to_show, strategy, positions, backtesting_analysis, rendered, runs>>
    /\ UNCHANGED <<now, executor, config, order_level, candle, call>>

RunBacktesting ==
    /\ Advance("run_backtesting")
    /\ \E p \in PositionLists : positions' = p
    /\ backtesting' = [backtesting EXCEPT !.runs = @ + 1]
    /\ UNCHANGED <<df_to_show, strategy, backtesting_analysis, rendered, runs>>
    /\ UNCHANGED <<now, executor, config, order_level, candle, call>>

ConstructBacktestingAnalysis ==
    /\ Advance("BacktestingAnalysis")
    /\ backtesting_analysis' = [positions |-> positions, candles_df |-> df_to_show,
                                base_figure |-> FALSE, trade_pnl_row |-> 0]
    /\ UNCHANGED <<df_to_show, strategy, backtesting, positions, rendered, runs>>
    /\ UNCHANGED <<now, executor, config, order_level, candle, call>>

CreateBaseFigure ==
    /\ Advance("create_base_figure")
    /\ backtesting_analysis' = [backtesting_analysis EXCEPT !.base_figure = TRUE]
    /\ UNCHANGED <<df_to_show, strategy, backtesting, positions, rendered, runs>>
    /\ UNCHANGED <<now, executor, config, order_level, candle, call>>

AddTradePnl ==
    /\ Advance("add_trade_pnl")
    /\ backtesting_analysis' = [backtesting_analysis EXCEPT !.trade_pnl_row = 2]
    /\ UNCHANGED <<df_to_show, strategy, backtesting, positions, rendered, runs>>
    /\ UNCHANGED <<now, executor, config, order_level, candle, call>>

Columns ==
    /\ Advance("columns")
    /\ UNCHANGED <<df_to_show, strategy, backtesting, positions, backtesting_analysis, rendered, runs>>
    /\ UNCHANGED <<now, executor, config, order_level, candle, call>>

\* with c1: the column is entered and st.text(text_report()) returns; the
\* with statement has not completed yet
RenderText ==
    /\ pc = "text"
    /\ pc' = StepAfter("text")
    /\ rendered' = rendered \cup {"text_report"}
    /\ UNCHANGED <<trace, df_to_show, strategy, backtesting, positions, backtesting_analysis, runs>>
    /\ UNCHANGED <<now, executor, config, order_level, candle, call>>

\* c1.__exit__ returns: the with statement completes
ExitTextColumn ==
    /\ pc = "text_exit"
    /\ pc' = StepAfter("text_exit")
    /\ trace' = Append(trace, "text")
    /\ UNCHANGED <<df_to_show, strategy, backtesting, positions, backtesting_analysis, rendered, runs>>
    /\ UNCHANGED <<now, executor, config, order_level, candle, call>>

\* with c2: the column is entered and st.plotly_chart(figure()) returns
RenderChart ==
    /\ pc = "plotly_chart"
    /\ pc' = StepAfter("plotly_chart")
    /\ rendered' = rendered \cup {"chart"}
    /\ UNCHANGED <<trace, df_to_show, strategy, backtesting, positions, backtesting_analysis, runs>>
    /\ UNCHANGED <<now, executor, config, order_level, candle, call>>

\* c2.__exit__ returns: the with statement, and the script, complete
ExitChartColumn ==
    /\ pc = "plotly_chart_exit"
    /\ pc' = StepAfter("plotly_chart_exit")
    /\ trace' = Append(trace, "plotly_chart")
    /\ UNCHANGED <<df_to_show, strategy, backtesting, positions, backtesting_analysis, rendered, runs>>
    /\ UNCHANGED <<now, executor, config, order_level, candle, call>>

\* what is about to run raises (a statement, or the __exit__ of a with block
\* whose body has already run): the run ends there
StatementRaises ==
    /\ pc \notin {"done", "raised"}
    /\ pc' = "raised"
    /\ UNCHANGED <<trace, df_to_show, strategy, backtesting, positions, backtesting_analysis, rendered, runs>>
    /\ UNCHANGED <<now, executor, config, order_level, candle, call>>

\* streamlit runs the script again from the top, in a fresh namespace
Rerun ==
    /\ pc \in {"done", "raised"}
    /\ runs < MaxRuns
    /\ pc' = "set_page_config"
    /\ df_to_show' = 0
    /\ strategy' = 0
    /\ backtesting' = 0
    /\ positions' = 0
    /\ backtesting_analysis' = 0
    /\ rendered' = {}
    /\ trace' = <<>>
    /\ runs' = runs + 1
    /\ UNCHANGED <<now, executor, config, order_level, candle, call>>

PageInit ==
    /\ now = 1
    /\ executor = FirstExecutor
    /\ config = DefaultConfig
    /\ order_level = OrderLevel("BUY", DecInt(1), DecInt(1), 60, 0, TripleBarrierConf(Dec(1, 2), 1))
    /\ candle = FlatCandle
    /\ call = NoCall
    /\ InitPage

PageNext ==
    \/ SetPageConfig
    \/ Title
    \/ GetDataframe
    \/ ConstructStatArb
    \/ ConstructBacktesting
    \/ RunBacktesting
    \/ ConstructBacktestingAnalysis
    \/ CreateBaseFigure
    \/ AddTradePnl
    \/ Columns
    \/ RenderText
    \/ ExitTextColumn
    \/ RenderChart
    \/ ExitChartColumn
    \/ StatementRaises
    \/ Rerun

PageSpec == PageInit /\ [][PageNext]_vars

(***************************************************************************)
(* Properties.                                                             *)
(***************************************************************************)
IsSet(ts) == ts # None /\ ts # 0

InCooldown == cooldown_condition(executor, order_level, now)

C1_CallOk ==
    call.op = "cooldown_condition" =>
        call.result = (/\ IsSet(call.executor.close_timestamp)
                       /\ call.executor.close_timestamp + order_level.cooldown_time > call.at)

C1_NoReentry ==
    (executor'.close_timestamp = executor.close_timestamp /\ ~InCooldown) => ~InCooldown'

\* C1: cooldown_condition returns True exactly when close_timestamp is set
\* (not None, not 0) and close_timestamp + cooldown_time > now, False
\* otherwise; while close_timestamp is unchanged an executor out of cooldown
\* never re-enters it; and under an advancing clock an executor in cooldown
\* eventually leaves it.
C1_CooldownBounded ==
    /\ []C1_CallOk
    /\ [][C1_NoReentry]_vars
    /\ (InCooldown ~> ~InCooldown)

\* a cooldown_condition call returned True for the executor, and the clock
\* has since passed the end of its cooldown
C1_Witness ==
    /\ call.op = "cooldown_condition"
    /\ call.result = TRUE
    /\ call.executor = executor
    /\ order_level.cooldown_time > 0
    /\ now >= executor.close_timestamp + order_level.cooldown_time
    /\ ~InCooldown

NeedsRefresh == refresh_order_condition(executor, order_level, now)

C2_CallOk ==
    call.op = "refresh_order_condition" =>
        /\ call.result = TRUE <=>
              call.executor.position_config.timestamp + order_level.order_refresh_time <= call.at
        /\ call.result = FALSE <=>
              call.executor.position_config.timestamp + order_level.order_refresh_time > call.at

C2_Monotone ==
    (executor'.position_config.timestamp = executor.position_config.timestamp /\ NeedsRefresh)
        => NeedsRefresh'

\* C2: refresh_order_condition returns True exactly when position_config.timestamp
\* + order_refresh_time <= now and False exactly when that sum is > now; with the
\* timestamp fixed, once it is True it stays True as the clock advances.
C2_RefreshThreshold == []C2_CallOk /\ [][C2_Monotone]_vars

\* a refresh_order_condition call returned True at the very instant the
\* refresh time elapsed, and the clock has advanced since
C2_Witness ==
    /\ call.op = "refresh_order_condition"
    /\ call.result = TRUE
    /\ call.executor = executor
    /\ call.executor.position_config.timestamp + order_level.order_refresh_time = call.at
    /\ order_level.order_refresh_time > 0
    /\ now > call.at

C5_CallOk == call.op = "early_stop_condition" => call.result = FALSE

C5_NoEffect ==
    (call'.op = "early_stop_condition" /\ call' # call)
        => (executor' = executor /\ order_level' = order_level)

\* C5: early_stop_condition returns False for every executor and order level,
\* and the call changes neither the executor nor the order level.
C5_NeverStopsEarly == []C5_CallOk /\ [][C5_NoEffect]_vars

\* early_stop_condition was called on a finished executor, later than its
\* creation
C5_Witness ==
    /\ call.op = "early_stop_condition"
    /\ IsSet(call.executor.close_timestamp)
    /\ call.at > call.executor.position_config.timestamp
(***************************************************************************)
(* get_processed_data and get_position_config.                             *)
(***************************************************************************)
LongCondition == FloatLt(candle.bbp, config.bb_long_threshold)

ShortCondition == FloatGt(candle.bbp, config.bb_short_threshold)

Processed == call.op = "get_processed_data"

\* C6 as stated: every candle below bb_long_threshold is marked 1, every
\* candle above bb_short_threshold is marked -1, a candle satisfying neither
\* keeps 0, and no candle is marked with a side whose condition it fails.
C6_AsStated ==
    Processed =>
        /\ LongCondition => call.result.active_side = 1
        /\ ShortCondition => call.result.active_side = -1
        /\ (~LongCondition /\ ~ShortCondition) => call.result.active_side = 0
        /\ call.result.active_side = 1 => LongCondition
        /\ call.result.active_side = -1 => ShortCondition

\* C6 amended: every candle above bb_short_threshold is marked -1; every
\* candle below bb_long_threshold and not above bb_short_threshold is marked
\* 1; a candle satisfying neither condition (a NaN %B included) keeps 0.
\* When both conditions hold the short assignment, made last, wins.
C6_ShortWins ==
    Processed =>
        /\ ShortCondition <=> call.result.active_side = -1
        /\ (LongCondition /\ ~ShortCondition) <=> call.result.active_side = 1
        /\ (~LongCondition /\ ~ShortCondition) <=> call.result.active_side = 0

\* under the default thresholds a candle satisfying both conditions has been
\* processed and marked short
C6_Witness ==
    /\ Processed
    /\ config = DefaultConfig
    /\ LongCondition
    /\ ShortCondition
    /\ call.result.active_side = -1

Called == call.op = "get_position_config"

Returned == Called /\ call.result.kind = "PositionConfig"

SignalMatches == get_processed_data(config, candle).active_side = current_side_of(order_level)

\* C3: get_position_config returns a PositionConfig if and only if the
\* active_side signal equals the order level's side (1 for BUY, -1 for any
\* other side) and otherwise returns None; the returned PositionConfig takes
\* side, stop_loss, time_limit and the order types from the order level and
\* trading_pair, exchange and leverage from the controller config.
C3_ReturnsIffSignalMatches ==
    Called =>
        /\ call.result.kind = "PositionConfig" <=> SignalMatches
        /\ call.result.kind # "PositionConfig" => call.result.kind = "None"
        /\ call.result.kind = "PositionConfig" =>
              LET p == call.result.position_config
                  conf == order_level.triple_barrier_conf
              IN  /\ p.side = order_level.side
                  /\ p.stop_loss = conf.stop_loss
                  /\ p.time_limit = conf.time_limit
                  /\ p.open_order_type = conf.open_order_type
                  /\ p.take_profit_order_type = conf.take_profit_order_type
                  /\ p.trading_pair = config.trading_pair
                  /\ p.exchange = config.exchange
                  /\ p.leverage = config.leverage

SpreadProduct == DecMul(order_level.spread_factor, candle.natr)

\* C7: with a positive close price and non-negative NATR and spread_factor,
\* a BUY level's entry price is close * (1 - spread_factor * NATR) and at
\* most the close, a SELL level's is close * (1 + spread_factor * NATR) and
\* at least the close, and the entry price is strictly positive.
C7_EntryPrice ==
    (/\ Returned
     /\ candle.close.c > 0
     /\ candle.natr.c >= 0
     /\ order_level.spread_factor.c >= 0) =>
        LET entry == call.result.position_config.entry_price
        IN  /\ order_level.side = "BUY" =>
                 /\ entry = DecMul(candle.close, DecAdd(DecInt(1), DecNeg(SpreadProduct)))
                 /\ DecLe(entry, candle.close)
            /\ order_level.side = "SELL" =>
                 /\ entry = DecMul(candle.close, DecAdd(DecInt(1), SpreadProduct))
                 /\ DecLe(candle.close, entry)
            /\ entry.c > 0

\* C8: amount equals order_amount_usd divided by the entry price, so amount
\* times entry_price equals order_amount_usd, and amount is strictly
\* positive whenever order_amount_usd is.
C8_Sizing ==
    Returned =>
        LET p == call.result.position_config
        IN  /\ p.amount = DecDiv(order_level.order_amount_usd, p.entry_price)
            /\ DecMul(p.amount, p.entry_price) = order_level.order_amount_usd
            /\ order_level.order_amount_usd.c > 0 => p.amount.c > 0

\* C9: on BUY and SELL levels take_profit equals the configured take_profit
\* times the magnitude of NATR, hence is non-negative whenever the
\* configured take_profit and NATR are.
C9_TakeProfit ==
    (Returned /\ order_level.side \in {"BUY", "SELL"}) =>
        LET p == call.result.position_config
            conf == order_level.triple_barrier_conf
            magnitude == [c |-> Abs(candle.natr.c), e |-> candle.natr.e]
        IN  /\ p.take_profit = DecMul(conf.take_profit, magnitude)
            /\ (conf.take_profit.c >= 0 /\ candle.natr.c >= 0) => p.take_profit.c >= 0

(***************************************************************************)
(* The backtesting page.                                                   *)
(***************************************************************************)
PageOrder ==
    <<"set_page_config", "title", "get_dataframe", "StatArb", "Backtesting",
      "run_backtesting", "BacktestingAnalysis", "create_base_figure",
      "add_trade_pnl", "columns", "text", "plotly_chart">>

Done(step) == \E i \in 1..Len(trace) : trace[i] = step

TimesDone(step) == Cardinality({i \in 1..Len(trace) : trace[i] = step})

\* C4: the statements of a run complete in the one fixed order (candles
\* fetched, StatArb, Backtesting built from it, run_backtesting once, the
\* BacktestingAnalysis built from the returned positions and the fetched
\* candles, base figure, trade-PnL row) before the text report and then the
\* chart are rendered; if a statement before the rendering raises, neither
\* is rendered.
C4_FixedOrder ==
    /\ Len(trace) <= Len(PageOrder)
    /\ \A i \in 1..Len(trace) : trace[i] = PageOrder[i]
    /\ Done("Backtesting") => backtesting.strategy = strategy
    /\ Done("run_backtesting") => backtesting.runs = 1
    /\ Done("BacktestingAnalysis") =>
          /\ backtesting_analysis.positions = positions
          /\ backtesting_analysis.candles_df = df_to_show
          /\ positions \in PositionLists
          /\ df_to_show \in Dataframes
    /\ Done("text") => "text_report" \in rendered
    /\ Done("plotly_chart") => "chart" \in rendered
    /\ "text_report" \in rendered =>
          /\ Done("columns")
          /\ TimesDone("run_backtesting") = 1
          /\ backtesting_analysis.base_figure
          /\ backtesting_analysis.trade_pnl_row = 2
    /\ "chart" \in rendered => ("text_report" \in rendered /\ Done("text"))
    /\ (pc = "raised" /\ ~Done("columns")) => rendered \cap {"text_report", "chart"} = {}
    /\ pc = "done" <=> Done("plotly_chart")

\* a second run of the page has rendered the report and the chart
C4_Witness ==
    /\ pc = "done"
    /\ runs = MaxRuns
    /\ {"text_report", "chart"} \subseteq rendered

====
